---- MODULE Spec2Model ----
(***************************************************************************)
(* WassersteinGANTrainer (src/WassersteinGANTrainer.py): the training loop *)
(* train(n_epochs, n_batch), its two input-construction functions, the     *)
(* statistics it records and the critic weight clamp.                      *)
(*                                                                         *)
(* Units.  Critic scores and d_thresh are in tenths (0.5 is 5).  Model     *)
(* parameters and the clamp range are in thousandths (0.01 is 10).  A      *)
(* float quotient a / b is the reduced fraction <<a', b'>>; nan is <<0,0>>.*)
(***************************************************************************)
EXTENDS Integers, Sequences, FiniteSets

VARIABLES
    pc,         \* the statement of train about to run; "idle" outside train
    n_epochs,   \* train's argument
    n_batch,    \* train's argument
    epoch,      \* the for loop's index
    tt,         \* the role chosen for this step
    dis_in,     \* the batch rows handed to the discriminator
    y,          \* the batch labels
    mod_pred,   \* the discriminator's scores, one per row
    mod_loss,   \* the loss of this step
    stats,      \* self.stats
    all_dists,  \* train's local distance history
    theta,      \* the parameter values of models["G"] and models["D"]
    grad,       \* whether each model's parameters hold gradients
    training,   \* each model's mode: TRUE is training, FALSE is inference
    trace,      \* the calls made so far in the current step, in order
    theta0,     \* the parameter values at the start of the current step
    stats0,     \* self.stats at the start of the current step
    sampled,    \* the sizes last asked of the latent and dataset samplers
    selected,   \* how many times the policy has returned each role
    requested,  \* the sum of n_epochs over all train calls made
    small_batch \* whether some step so far ran with n_batch below 2

vars == <<pc, n_epochs, n_batch, epoch, tt, dis_in, y, mod_pred, mod_loss,
          stats, all_dists, theta, grad, training, trace, theta0, stats0,
          sampled, selected, requested, small_batch>>

----------------------------------------------------------------------------
(* Bounds of the model *)

MaxSteps == 2
MaxBatch == 3
MaxInputBatch == 16

(* Program constants *)

d_thresh == 5
ClampLo == -10
ClampHi == 10
WDistBatch == 256

Roles == {"G", "D"}
Params == {"w", "b"}

\* Parameter vectors an optimizer step can leave behind or a model can be
\* built with: below, inside and above the clamp range.
ThetaVals ==
    { [w |-> -20, b |-> 5], [w |-> 0, b |-> 30] }

\* Scores the critic can give a row: exactly the threshold and above it.
ScoreVals == {d_thresh, d_thresh + 1}

----------------------------------------------------------------------------
(* Arithmetic *)

RECURSIVE GCD(_, _)
GCD(a, b) == IF b = 0 THEN a ELSE GCD(b, a % b)

Abs(a) == IF a < 0 THEN -a ELSE a

\* Python's a / b on numbers: a float, here a reduced fraction.
ZeroDivisionError == <<1, 0>>
TrueDiv(a, b) ==
    IF b = 0 THEN ZeroDivisionError
    ELSE LET g == GCD(Abs(a), Abs(b)) IN <<a \div g, b \div g>>

\* math.ceil(n / 2) and int(n / 2) for n >= 0
CeilHalf(n) == (n + 1) \div 2
IntHalf(n) == n \div 2

RECURSIVE SumSeq(_)
SumSeq(s) == IF s = <<>> THEN 0 ELSE Head(s) + SumSeq(Tail(s))

\* s[mask == v] of torch: the entries of s where mask is v, in order
RECURSIVE Masked(_, _, _)
Masked(s, mask, v) ==
    IF s = <<>> THEN <<>>
    ELSE (IF Head(mask) = v THEN <<Head(s)>> ELSE <<>>)
         \o Masked(Tail(s), Tail(mask), v)

\* torch.mean of a vector of tenths: nan on an empty vector
nan == <<0, 0>>
Mean(s) == IF Len(s) = 0 THEN nan ELSE TrueDiv(SumSeq(s), Len(s))

Neg(q) == <<-q[1], q[2]>>
Sub(p, q) ==
    IF p = nan \/ q = nan THEN nan
    ELSE TrueDiv(p[1] * q[2] - q[1] * p[2], p[2] * q[2])

----------------------------------------------------------------------------
(* Collaborators *)

\* lat_space(batch_size, dev): batch_size latent rows
latent_space(k) == [i \in 1..k |-> "z"]

\* batch_from_data(batch_size, dev): batch_size rows of the real dataset
dataset(k) == [i \in 1..k |-> "real"]

\* Generator.forward: one generated row per latent row
GeneratorForward(rows) ==
    [i \in 1..Len(rows) |-> IF rows[i] = "z" THEN "fake" ELSE "G(real)"]

\* genLoss and disLoss
genLoss(prediction, label) == Neg(Mean(prediction))
disLoss(prediction, label) ==
    LET pred_fake == Masked(prediction, label, 0)
        pred_real == Masked(prediction, label, 1)
    IN Neg(Sub(Mean(pred_real), Mean(pred_fake)))

loss_functions(r, prediction, label) ==
    IF r = "G" THEN genLoss(prediction, label) ELSE disLoss(prediction, label)

----------------------------------------------------------------------------
(* The input-construction functions *)

discriminator_input_FloorFake(n) ==
    [ dis_in  |-> GeneratorForward(latent_space(IntHalf(n)))
                    \o dataset(CeilHalf(n)),
      y       |-> [i \in 1..IntHalf(n) |-> 0] \o [i \in 1..CeilHalf(n) |-> 1],
      sampled |-> [latent |-> IntHalf(n), data |-> CeilHalf(n)] ]

discriminator_input(n) ==
    [ dis_in  |-> GeneratorForward(latent_space(CeilHalf(n)))
                    \o dataset(IntHalf(n)),
      y       |-> [i \in 1..CeilHalf(n) |-> 0] \o [i \in 1..IntHalf(n) |-> 1],
      sampled |-> [latent |-> CeilHalf(n), data |-> IntHalf(n)] ]

generator_input_HalfBatch(n) ==
    [ dis_in  |-> GeneratorForward(latent_space(CeilHalf(n))),
      y       |-> [i \in 1..n |-> 1],
      sampled |-> [latent |-> CeilHalf(n), data |-> 0] ]

generator_input_ZeroLabels(n) ==
    [ dis_in  |-> GeneratorForward(latent_space(n)),
      y       |-> [i \in 1..n |-> 0],
      sampled |-> [latent |-> n, data |-> 0] ]

generator_input(n) ==
    [ dis_in  |-> GeneratorForward(latent_space(n)),
      y       |-> [i \in 1..n |-> 1],
      sampled |-> [latent |-> n, data |-> 0] ]

in_functions(r, n) ==
    IF r = "G" THEN generator_input(n) ELSE discriminator_input(n)

----------------------------------------------------------------------------
(* The confusion counts of a batch and the rates recorded from them *)

Positive_AtLeast(score) == score >= d_thresh
Positive(score) == score > d_thresh

CountIf(S) == Cardinality(S)

Confusion(labels, pred) ==
    LET I == 1..Len(labels) IN
    [ fP |-> CountIf({i \in I : labels[i] = 0 /\ Positive(pred[i])}),
      tN |-> CountIf({i \in I : labels[i] = 0 /\ ~Positive(pred[i])}),
      tP |-> CountIf({i \in I : labels[i] # 0 /\ Positive(pred[i])}),
      fN |-> CountIf({i \in I : labels[i] # 0 /\ ~Positive(pred[i])}) ]

FprRecorded(c) == c.fP + c.tN > 0
PrecisionRecorded_Always(c) == TRUE
PrecisionRecorded(c) == c.tP + c.fP > 0
RecallRecorded_Always(c) == TRUE
RecallRecorded(c) == c.tP + c.fN > 0

RecordRates(s, c) ==
    [ s EXCEPT
        !.d_fpr = IF FprRecorded(c)
                  THEN Append(@, TrueDiv(c.fP, c.fP + c.tN)) ELSE @,
        !.d_precision = IF PrecisionRecorded(c)
                        THEN Append(@, TrueDiv(c.tP, c.tP + c.fP)) ELSE @,
        !.d_recall = IF RecallRecorded(c)
                     THEN Append(@, TrueDiv(c.tP, c.tP + c.fN)) ELSE @ ]

RecordLoss_CounterOnly(s, r, loss) ==
    [ s EXCEPT !.epochs_trained[r] = @ + 1 ]

RecordLoss_Prepend(s, r, loss) ==
    [ s EXCEPT !.losses[r] = <<loss>> \o @,
               !.epochs_trained[r] = @ + 1 ]

RecordLoss(s, r, loss) ==
    [ s EXCEPT !.losses[r] = Append(@, loss),
               !.epochs_trained[r] = @ + 1 ]

\* p.data.clamp_(-0.01, 0.01) on every parameter
Clamp_UpperOnly(v) == IF v > ClampHi THEN ClampHi ELSE v
Clamp(v) == IF v < ClampLo THEN ClampLo ELSE IF v > ClampHi THEN ClampHi ELSE v
ClampAll_WeightOnly(p) == [k \in DOMAIN p |-> IF k = "w" THEN Clamp(p[k]) ELSE p[k]]
ClampAll(p) == [k \in DOMAIN p |-> Clamp(p[k])]

Event(op, arg) == [op |-> op, arg |-> arg]

----------------------------------------------------------------------------
(* Construction *)

NoBatch == <<>>
NoLoss == nan

InitStats ==
    [ losses         |-> [r \in Roles |-> <<>>],
      epochs_trained |-> [r \in Roles |-> 0],
      d_fpr          |-> <<>>,
      d_recall       |-> <<>>,
      d_precision    |-> <<>> ]

Constructed ==
    /\ stats = InitStats
    /\ theta \in [Roles -> ThetaVals]
    /\ grad = [r \in Roles |-> FALSE]
    /\ training = [r \in Roles |-> TRUE]
    /\ all_dists = <<>>
    /\ dis_in = NoBatch /\ y = NoBatch /\ mod_pred = NoBatch
    /\ mod_loss = NoLoss
    /\ trace = <<>>
    /\ theta0 = theta
    /\ stats0 = stats
    /\ sampled = [latent |-> 0, data |-> 0]
    /\ selected = [r \in Roles |-> 0]
    /\ requested = 0
    /\ small_batch = FALSE
    /\ epoch = 0

Init ==
    /\ Constructed
    /\ pc = "idle"
    /\ n_epochs = 0
    /\ n_batch = 0
    /\ tt = "G"

----------------------------------------------------------------------------
(* train(n_epochs, n_batch) *)

Train ==
    /\ pc = "idle"
    /\ \E N \in 0..(MaxSteps - requested), n \in 0..MaxBatch :
        /\ n_epochs' = N
        /\ n_batch' = n
        /\ requested' = requested + N
    /\ all_dists' = <<>>
    /\ epoch' = 0
    /\ pc' = "for"
    /\ UNCHANGED <<tt, dis_in, y, mod_pred, mod_loss, stats, theta, grad,
                   training, trace, theta0, stats0, sampled, selected,
                   small_batch>>

ForBody ==
    /\ pc = "for"
    /\ epoch < n_epochs
    /\ trace' = <<>>
    /\ theta0' = theta
    /\ stats0' = stats
    /\ dis_in' = NoBatch /\ y' = NoBatch /\ mod_pred' = NoBatch
    /\ mod_loss' = NoLoss
    /\ small_batch' = (small_batch \/ n_batch < 2)
    /\ pc' = "next"
    /\ UNCHANGED <<n_epochs, n_batch, epoch, tt, stats, all_dists, theta,
                   grad, training, sampled, selected, requested>>

ForExit ==
    /\ pc = "for"
    /\ epoch >= n_epochs
    /\ pc' = "plot"
    /\ UNCHANGED <<n_epochs, n_batch, epoch, tt, dis_in, y, mod_pred,
                   mod_loss, stats, all_dists, theta, grad, training, trace,
                   theta0, stats0, sampled, selected, requested,
                   small_batch>>

\* tt = self.totrain.next(self)
ToTrainNext ==
    /\ pc = "next"
    /\ \E r \in Roles :
        /\ tt' = r
        /\ selected' = [selected EXCEPT ![r] = @ + 1]
        /\ trace' = Append(trace, Event("next", r))
    /\ pc' = "input"
    /\ UNCHANGED <<n_epochs, n_batch, epoch, dis_in, y, mod_pred, mod_loss,
                   stats, all_dists, theta, grad, training, theta0, stats0,
                   sampled, requested,
                   small_batch>>

\* dis_in, y = self.in_functions[tt](n_batch)
BuildBatch ==
    /\ pc = "input"
    /\ LET b == in_functions(tt, n_batch) IN
        /\ dis_in' = b.dis_in
        /\ y' = b.y
        /\ sampled' = b.sampled
    /\ training' = [training EXCEPT !["G"] = IF tt = "D" THEN TRUE ELSE @]
    /\ trace' = Append(trace, Event("input", tt))
    /\ pc' = "eval"
    /\ UNCHANGED <<n_epochs, n_batch, epoch, tt, mod_pred, mod_loss, stats,
                   all_dists, theta, grad, theta0, stats0, selected,
                   requested,
                   small_batch>>

\* if tt == "G": self.models["D"].eval()
EvalMode ==
    /\ pc = "eval"
    /\ IF tt = "G"
       THEN /\ training' = [training EXCEPT !["D"] = FALSE]
            /\ trace' = Append(trace, Event("D.eval", tt))
       ELSE UNCHANGED <<training, trace>>
    /\ pc' = "forward"
    /\ UNCHANGED <<n_epochs, n_batch, epoch, tt, dis_in, y, mod_pred,
                   mod_loss, stats, all_dists, theta, grad, theta0, stats0,
                   sampled, selected, requested,
                   small_batch>>

\* mod_pred = self.models["D"](dis_in)
Forward ==
    /\ pc = "forward"
    /\ mod_pred' \in [1..Len(dis_in) -> ScoreVals]
    /\ trace' = Append(trace, Event("D.forward",
                                    IF training["D"] THEN "train" ELSE "eval"))
    /\ pc' = "train"
    /\ UNCHANGED <<n_epochs, n_batch, epoch, tt, dis_in, y, mod_loss, stats,
                   all_dists, theta, grad, training, theta0, stats0, sampled,
                   selected, requested,
                   small_batch>>

TrainMode_OnlyAfterEval ==
    /\ pc = "train"
    /\ training' = [training EXCEPT !["D"] = (tt = "D")]
    /\ trace' = Append(trace, Event("D.train", tt))
    /\ pc' = "loss"
    /\ UNCHANGED <<n_epochs, n_batch, epoch, tt, dis_in, y, mod_pred,
                   mod_loss, stats, all_dists, theta, grad, theta0, stats0,
                   sampled, selected, requested,
                   small_batch>>

\* self.models["D"].train()
TrainMode ==
    /\ pc = "train"
    /\ training' = [training EXCEPT !["D"] = TRUE]
    /\ trace' = Append(trace, Event("D.train", tt))
    /\ pc' = "loss"
    /\ UNCHANGED <<n_epochs, n_batch, epoch, tt, dis_in, y, mod_pred,
                   mod_loss, stats, all_dists, theta, grad, theta0, stats0,
                   sampled, selected, requested,
                   small_batch>>

\* mod_loss = self.loss_functions[tt](mod_pred, y)
Loss ==
    /\ pc = "loss"
    /\ mod_loss' = loss_functions(tt, mod_pred, y)
    /\ trace' = Append(trace, Event("loss", tt))
    /\ pc' = "log"
    /\ UNCHANGED <<n_epochs, n_batch, epoch, tt, dis_in, y, mod_pred, stats,
                   all_dists, theta, grad, training, theta0, stats0, sampled,
                   selected, requested,
                   small_batch>>

\* losses[tt].append(mod_loss.item()); epochs_trained[tt] += 1
Log ==
    /\ pc = "log"
    /\ stats' = RecordLoss(stats, tt, mod_loss)
    /\ trace' = Append(trace, Event("log", tt))
    /\ pc' = "metrics"
    /\ UNCHANGED <<n_epochs, n_batch, epoch, tt, dis_in, y, mod_pred,
                   mod_loss, all_dists, theta, grad, training, theta0, stats0,
                   sampled, selected, requested,
                   small_batch>>

\* the confusion counts and the three guarded appends
Metrics ==
    /\ pc = "metrics"
    /\ stats' = RecordRates(stats, Confusion(y, mod_pred))
    /\ trace' = Append(trace, Event("metrics", tt))
    /\ pc' = "zero_grad"
    /\ UNCHANGED <<n_epochs, n_batch, epoch, tt, dis_in, y, mod_pred,
                   mod_loss, all_dists, theta, grad, training, theta0, stats0,
                   sampled, selected, requested,
                   small_batch>>

optimizers_Swapped(r) == IF r = "G" THEN "d_opt" ELSE "g_opt"

\* opts={"G": g_opt, "D": d_opt}
optimizers(r) == IF r = "G" THEN "g_opt" ELSE "d_opt"

\* g_opt = RMSprop(generator.parameters()), d_opt = RMSprop(discriminator...)
OptimizerParams(o) == IF o = "g_opt" THEN "G" ELSE "D"

ZeroGrad_AfterBackward ==
    /\ pc = "zero_grad"
    /\ grad' = [grad EXCEPT ![OptimizerParams(optimizers(tt))] = FALSE]
    /\ trace' = trace \o <<Event("backward", tt),
                            Event("zero_grad", optimizers(tt))>>
    /\ pc' = "step"
    /\ UNCHANGED <<n_epochs, n_batch, epoch, tt, dis_in, y, mod_pred,
                   mod_loss, stats, all_dists, theta, training, theta0,
                   stats0, sampled, selected, requested, small_batch>>

\* self.optimizers[tt].zero_grad()
ZeroGrad ==
    /\ pc = "zero_grad"
    /\ grad' = [grad EXCEPT ![OptimizerParams(optimizers(tt))] = FALSE]
    /\ trace' = Append(trace, Event("zero_grad", optimizers(tt)))
    /\ pc' = "backward"
    /\ UNCHANGED <<n_epochs, n_batch, epoch, tt, dis_in, y, mod_pred,
                   mod_loss, stats, all_dists, theta, training, theta0,
                   stats0, sampled, selected, requested,
                   small_batch>>

\* mod_loss.backward(): the loss depends on the discriminator's parameters
\* and, through the generated rows, on the generator's
Backward ==
    /\ pc = "backward"
    /\ grad' = [r \in Roles |-> TRUE]
    /\ trace' = Append(trace, Event("backward", tt))
    /\ pc' = "step"
    /\ UNCHANGED <<n_epochs, n_batch, epoch, tt, dis_in, y, mod_pred,
                   mod_loss, stats, all_dists, theta, training, theta0,
                   stats0, sampled, selected, requested,
                   small_batch>>

\* The parameters a step of optimizer o can leave behind: it moves only the
\* parameters it was constructed over, and only when they hold gradients.
OptimizerStep(th, g, o) ==
    LET r == OptimizerParams(o) IN
    IF g[r] THEN { [th EXCEPT ![r] = v] : v \in ThetaVals \cup {th[r]} }
    ELSE {th}

\* self.optimizers[tt].step()
Step ==
    /\ pc = "step"
    /\ theta' \in OptimizerStep(theta, grad, optimizers(tt))
    /\ trace' = Append(trace, Event("step", optimizers(tt)))
    /\ pc' = "clamp"
    /\ UNCHANGED <<n_epochs, n_batch, epoch, tt, dis_in, y, mod_pred,
                   mod_loss, stats, all_dists, grad, training, theta0, stats0,
                   sampled, selected, requested,
                   small_batch>>

\* if tt == "D": clamp every parameter of models["D"]
ClampD ==
    /\ pc = "clamp"
    /\ IF tt = "D"
       THEN /\ theta' = [theta EXCEPT !["D"] = ClampAll(@)]
            /\ trace' = Append(trace, Event("clamp", "D"))
       ELSE UNCHANGED <<theta, trace>>
    /\ pc' = "w_dist"
    /\ UNCHANGED <<n_epochs, n_batch, epoch, tt, dis_in, y, mod_pred,
                   mod_loss, stats, all_dists, grad, training, theta0, stats0,
                   sampled, selected, requested,
                   small_batch>>

\* SuperTrainer.eval(role, in_dat): the role's model in inference mode, its
\* mode restored before returning, its parameters untouched
eval(r, in_dat) == GeneratorForward(in_dat)

\* torch.mean(self.all_Wasserstein_dists(gen, real)): one scalar per call,
\* whose value plays no part in the control flow
all_Wasserstein_dists(gen, real) ==
    IF Len(gen) = 0 \/ Len(real) = 0 THEN nan ELSE <<1, 1>>

WDist_OnlyCriticSteps ==
    /\ pc = "w_dist"
    /\ all_dists' = (IF tt = "D" THEN Append(all_dists, <<1, 1>>) ELSE all_dists)
    /\ sampled' = [latent |-> WDistBatch, data |-> WDistBatch]
    /\ trace' = Append(trace, Event("w_dist", tt))
    /\ epoch' = epoch + 1
    /\ theta0' = theta
    /\ stats0' = stats
    /\ dis_in' = NoBatch /\ y' = NoBatch /\ mod_pred' = NoBatch
    /\ mod_loss' = NoLoss
    /\ pc' = "for"
    /\ UNCHANGED <<n_epochs, n_batch, tt, stats, theta, grad, training,
                   selected, requested,
                   small_batch>>

\* w_dists = ...; all_dists.append(torch.mean(w_dists)); next iteration
WDist ==
    /\ pc = "w_dist"
    /\ LET w_dist_mean == all_Wasserstein_dists(
                               eval("G", latent_space(WDistBatch)),
                               dataset(WDistBatch))
       IN all_dists' = Append(all_dists, w_dist_mean)
    /\ sampled' = [latent |-> WDistBatch, data |-> WDistBatch]
    /\ trace' = Append(trace, Event("w_dist", tt))
    /\ epoch' = epoch + 1
    /\ theta0' = theta
    /\ stats0' = stats
    /\ dis_in' = NoBatch /\ y' = NoBatch /\ mod_pred' = NoBatch
    /\ mod_loss' = NoLoss
    /\ pc' = "for"
    /\ UNCHANGED <<n_epochs, n_batch, tt, stats, theta, grad, training,
                   selected, requested,
                   small_batch>>

\* print(len(all_dists)); the plot; return
Plot ==
    /\ pc = "plot"
    /\ pc' = "idle"
    /\ UNCHANGED <<n_epochs, n_batch, epoch, tt, dis_in, y, mod_pred,
                   mod_loss, stats, all_dists, theta, grad, training, trace,
                   theta0, stats0, sampled, selected, requested,
                   small_batch>>

Next ==
    \/ Train
    \/ ForBody
    \/ ForExit
    \/ ToTrainNext
    \/ BuildBatch
    \/ EvalMode
    \/ Forward
    \/ TrainMode
    \/ Loss
    \/ Log
    \/ Metrics
    \/ ZeroGrad
    \/ Backward
    \/ Step
    \/ ClampD
    \/ WDist
    \/ Plot

Spec == Init /\ [][Next]_vars

----------------------------------------------------------------------------
(* The input-construction functions on their own: every role and every   *)
(* batch size up to MaxInputBatch, on a trainer as constructed.          *)

InputInit ==
    /\ Constructed
    /\ pc = "input"
    /\ n_epochs = 1
    /\ n_batch \in 0..MaxInputBatch
    /\ tt \in Roles

InputNext == BuildBatch

InputSpec == InputInit /\ [][InputNext]_vars

----------------------------------------------------------------------------
(* Vocabulary of the properties *)

IsPrefix(s, t) == Len(s) <= Len(t) /\ SubSeq(t, 1, Len(s)) = s

TotalLosses == Len(stats.losses["G"]) + Len(stats.losses["D"])
StepsDone == stats.epochs_trained["G"] + stats.epochs_trained["D"]

\* Between two steps: no step of train is under way.
StepBoundary == pc \in {"idle", "for", "next", "plot"}
InStep == ~StepBoundary

\* train has run its loop to the end (about to plot, or returned).
Returned == pc \in {"plot", "idle"}

\* The statements of a step that come after the guarded appends.
AfterMetrics == pc \in {"zero_grad", "backward", "step", "clamp", "w_dist"}

InClampRange(p) == \A k \in DOMAIN p : ClampLo <= p[k] /\ p[k] <= ClampHi

AllZero(labels) == \A i \in 1..Len(labels) : labels[i] = 0
ZeroLabels == {i \in 1..Len(y) : y[i] = 0}
OneLabels == {i \in 1..Len(y) : y[i] # 0}
AboveThreshold == {i \in 1..Len(mod_pred) : mod_pred[i] > d_thresh}

\* How many entries the current step has added to a rate sequence so far.
Added(name) == Len(stats[name]) - Len(stats0[name])

HasEvent(op) == \E i \in 1..Len(trace) : trace[i].op = op
EventAt(op) == CHOOSE i \in 1..Len(trace) : trace[i].op = op

----------------------------------------------------------------------------
(* C1: when train(N, n_batch) returns, the two loss sequences together    *)
(* hold one entry per step asked for: on a trainer on which no step was   *)
(* run before, exactly N; train(0, n_batch) returns with both sequences   *)
(* empty and both counters 0.  The loop index never passes N.             *)
C1_LossCountEqualsSteps ==
    /\ epoch <= n_epochs
    /\ Returned => TotalLosses = requested
    /\ (Returned /\ requested = n_epochs) => TotalLosses = n_epochs
    /\ (Returned /\ requested = 0) =>
          /\ stats.losses["G"] = <<>> /\ stats.losses["D"] = <<>>
          /\ stats.epochs_trained["G"] = 0 /\ stats.epochs_trained["D"] = 0

C1_Witness ==
    /\ pc = "idle" /\ n_epochs = 2 /\ requested = 2
    /\ Len(stats.losses["G"]) = 1 /\ Len(stats.losses["D"]) = 1

(* C2: at every step boundary each role's loss sequence is as long as its *)
(* epochs-trained counter and as the number of times the policy chose the *)
(* role; every ledger sequence changes only by growing at its end.        *)
C2_Boundary ==
    StepBoundary =>
        \A r \in Roles :
            /\ Len(stats.losses[r]) = stats.epochs_trained[r]
            /\ stats.epochs_trained[r] = selected[r]

C2_AppendOnly ==
    /\ \A r \in Roles : IsPrefix(stats.losses[r], stats'.losses[r])
    /\ IsPrefix(stats.d_fpr, stats'.d_fpr)
    /\ IsPrefix(stats.d_precision, stats'.d_precision)
    /\ IsPrefix(stats.d_recall, stats'.d_recall)

C2_LedgerGrowsWithSelection == [] C2_Boundary /\ [][C2_AppendOnly]_vars

C2_Witness ==
    /\ pc = "for" /\ selected["G"] = 1 /\ selected["D"] = 1
    /\ Len(stats.losses["G"]) = 1 /\ Len(stats.losses["D"]) = 1
    /\ Len(stats.d_fpr) = 1 /\ Len(stats.d_recall) = 2

(* C3: from the clamp of a discriminator step to the next step, every     *)
(* discriminator parameter lies in [ClampLo, ClampHi]; in a discriminator *)
(* step the clamp is the call right after the optimizer's step.           *)
C3_ClampAfterCriticStep ==
    /\ (tt = "D" /\ (pc = "w_dist" \/ (StepBoundary /\ StepsDone > 0))) =>
          InClampRange(theta["D"])
    /\ (tt = "D" /\ pc = "w_dist") =>
          /\ trace[Len(trace) - 1].op = "step"
          /\ trace[Len(trace)].op = "clamp"

C3_Witness ==
    /\ pc = "w_dist" /\ tt = "D"
    /\ theta["D"] # theta0["D"]
    /\ \E k \in Params : theta["D"][k] = ClampLo

(* C4 as stated: in a step whose labels are all zero nothing is appended  *)
(* to d_precision and nothing to d_recall, whatever the predictions.      *)
C4_AsStated ==
    (AfterMetrics /\ Len(y) > 0 /\ AllZero(y)) =>
        /\ stats.d_precision = stats0.d_precision
        /\ stats.d_recall = stats0.d_recall

(* C4, amended: in a step whose labels are all zero nothing is appended   *)
(* to d_recall; d_precision receives one entry, the value 0, exactly when *)
(* some prediction exceeds d_thresh, and nothing otherwise; d_fpr         *)
(* receives one entry when the batch is not empty.                        *)
C4_AllZeroLabels ==
    (AfterMetrics /\ AllZero(y)) =>
        /\ stats.d_recall = stats0.d_recall
        /\ stats.d_precision =
              (IF AboveThreshold # {}
               THEN Append(stats0.d_precision, <<0, 1>>)
               ELSE stats0.d_precision)
        /\ Added("d_fpr") = (IF Len(y) > 0 THEN 1 ELSE 0)

C4_Witness ==
    /\ pc = "zero_grad" /\ y = <<0>> /\ mod_pred = <<d_thresh + 1>>
    /\ Added("d_precision") = 1 /\ Added("d_recall") = 0
    /\ Added("d_fpr") = 1

(* C5: in every step each rate sequence receives at most one entry, and   *)
(* one exactly when its denominator is not zero: d_fpr when some label is *)
(* 0, d_precision when some prediction exceeds d_thresh, d_recall when    *)
(* some label is not 0; no entry is the result of a division by zero, and *)
(* the step goes on to the optimizer update.                              *)
C5_Denominators ==
    /\ AfterMetrics =>
          LET c == Confusion(y, mod_pred) IN
          /\ Added("d_fpr") = (IF c.fP + c.tN > 0 THEN 1 ELSE 0)
          /\ Added("d_precision") = (IF c.tP + c.fP > 0 THEN 1 ELSE 0)
          /\ Added("d_recall") = (IF c.tP + c.fN > 0 THEN 1 ELSE 0)
    /\ (InStep /\ ~AfterMetrics) =>
          Added("d_fpr") = 0 /\ Added("d_precision") = 0 /\ Added("d_recall") = 0
    /\ \A name \in {"d_fpr", "d_precision", "d_recall"} :
          \A i \in 1..Len(stats[name]) : stats[name][i] # ZeroDivisionError

C5_RatesGuarded == [] C5_Denominators /\ [][pc = "metrics" => pc' = "zero_grad"]_vars

C5_Witness ==
    /\ pc = "step" /\ tt = "G" /\ Len(y) = 2 /\ AboveThreshold = {}
    /\ Added("d_fpr") = 0 /\ Added("d_precision") = 0 /\ Added("d_recall") = 1

(* C6: discriminator_input(n) returns n labels, ceil(n/2) zeros followed  *)
(* by floor(n/2) ones, and n rows of which the first ceil(n/2) are        *)
(* generator outputs and the rest rows of the real dataset; for n = 16    *)
(* the labels are 8 zeros followed by 8 ones.                             *)
NumFake(n) == CHOOSE k \in 0..n : 2 * k >= n /\ 2 * k <= n + 1

C6_DiscriminatorInput ==
    (pc = "eval" /\ tt = "D") =>
        LET k == NumFake(n_batch) IN
        /\ Len(y) = n_batch /\ Len(dis_in) = n_batch
        /\ \A i \in 1..n_batch :
              /\ i <= k => (y[i] = 0 /\ dis_in[i] = "fake")
              /\ i > k => (y[i] = 1 /\ dis_in[i] = "real")
        /\ n_batch = 16 =>
              y = <<0, 0, 0, 0, 0, 0, 0, 0, 1, 1, 1, 1, 1, 1, 1, 1>>

C6_Witness ==
    /\ pc = "eval" /\ tt = "D" /\ n_batch = 16
    /\ Len(y) = 16 /\ y[8] = 0 /\ y[9] = 1
    /\ dis_in[8] = "fake" /\ dis_in[9] = "real"

(* C7: generator_input(n) asks the latent sampler for exactly n samples   *)
(* and nothing of the dataset, returns the generator's n outputs on them  *)
(* and a label vector of n ones.                                          *)
C7_GeneratorInput ==
    (pc = "eval" /\ tt = "G") =>
        /\ sampled = [latent |-> n_batch, data |-> 0]
        /\ Len(dis_in) = n_batch /\ Len(y) = n_batch
        /\ \A i \in 1..n_batch : dis_in[i] = "fake" /\ y[i] = 1

C7_Witness ==
    /\ pc = "eval" /\ tt = "G" /\ n_batch = 5
    /\ y = <<1, 1, 1, 1, 1>> /\ sampled.latent = 5

(* C8: throughout a step the parameters of the role that is not trained   *)
(* keep the values they had when the step began; the optimizer that is    *)
(* zeroed and stepped is the one built over the trained role's            *)
(* parameters; a generator step holds no clamp.                           *)
OtherRole(r) == IF r = "G" THEN "D" ELSE "G"
BuiltOver(r) == IF r = "G" THEN "g_opt" ELSE "d_opt"

C8_Frame ==
    InStep =>
        /\ theta[OtherRole(tt)] = theta0[OtherRole(tt)]
        /\ \A i \in 1..Len(trace) :
              /\ trace[i].op \in {"zero_grad", "step"} =>
                    trace[i].arg = BuiltOver(tt)
              /\ trace[i].op = "clamp" => tt = "D"

C8_OnlyTrainedRoleChanges ==
    [] C8_Frame /\ [][pc = "w_dist" => theta' = theta]_vars

C8_Witness ==
    /\ pc = "w_dist" /\ tt = "G" /\ theta["G"] # theta0["G"]
    /\ ~InClampRange(theta["D"]) /\ StepsDone = 2

(* C9: the discriminator's forward pass of a step runs in inference mode  *)
(* exactly when the generator is trained, and the discriminator is in     *)
(* training mode from the loss computation to the end of the step.        *)
C9_CriticMode ==
    /\ HasEvent("D.forward") =>
          (trace[EventAt("D.forward")].arg = "eval" <=> tt = "G")
    /\ pc \in {"loss", "log", "metrics", "zero_grad", "backward", "step",
                "clamp", "w_dist"} => training["D"]

C9_Witness ==
    /\ pc = "backward" /\ tt = "G" /\ training["D"]
    /\ trace[EventAt("D.forward")].arg = "eval"

(* C10: every step appends exactly one mean to the distance history,      *)
(* after the step's optimizer update and clamp, and the append leaves     *)
(* self.stats as it was; when train(n_epochs, n_batch) returns the        *)
(* history holds n_epochs entries.                                        *)
C10_Lengths ==
    /\ pc # "idle" => Len(all_dists) = epoch
    /\ Returned => Len(all_dists) = n_epochs

C10_Append ==
    /\ (all_dists' # all_dists /\ pc # "idle") =>
          /\ pc = "w_dist"
          /\ all_dists' = Append(all_dists, all_dists'[Len(all_dists')])
          /\ HasEvent("step")
          /\ tt = "D" => HasEvent("clamp")
          /\ stats' = stats
    /\ pc = "w_dist" => Len(all_dists') = Len(all_dists) + 1

StepOrder ==
    <<"next", "input", "D.forward", "loss", "log", "zero_grad", "backward",
      "step">>

RECURSIVE OrderedOps(_)
OrderedOps(t) ==
    IF t = <<>> THEN <<>>
    ELSE (IF \E j \in 1..Len(StepOrder) : StepOrder[j] = Head(t).op
          THEN <<Head(t).op>> ELSE <<>>) \o OrderedOps(Tail(t))

PolicyCalls == selected["G"] + selected["D"]

C11_StepOrder ==
    /\ IsPrefix(OrderedOps(trace), StepOrder)
    /\ pc = "next" =>
          /\ trace = <<>>
          /\ StepsDone = PolicyCalls
          /\ TotalLosses = PolicyCalls
          /\ Len(all_dists) = epoch
    /\ (InStep /\ pc # "input") => HasEvent("input")
    /\ pc = "w_dist" => OrderedOps(trace) = StepOrder

C11_Witness ==
    /\ pc = "clamp" /\ PolicyCalls = 2 /\ stats0.epochs_trained["D"] = 1
    /\ StepsDone = 2
    /\ OrderedOps(trace) = StepOrder

(* C12: the confusion counts of a step partition its batch: fP + tN is    *)
(* the number of labels 0, tP + fN the number of other labels, the four   *)
(* together the batch length; a row is predicted positive only when its   *)
(* score is strictly above d_thresh, so the recall recorded is the share  *)
(* of such rows among the rows labelled non-zero; every recorded rate     *)
(* lies between 0 and 1.                                                  *)
Last(s) == s[Len(s)]

C12_ConfusionPartition ==
    /\ AfterMetrics =>
          LET c == Confusion(y, mod_pred) IN
          /\ c.fP + c.tN = Cardinality(ZeroLabels)
          /\ c.tP + c.fN = Cardinality(OneLabels)
          /\ c.fP + c.tN + c.tP + c.fN = Len(y)
          /\ c.fP + c.tP = Cardinality(AboveThreshold)
          /\ OneLabels # {} =>
                Last(stats.d_recall) =
                    TrueDiv(Cardinality(OneLabels \cap AboveThreshold),
                            Cardinality(OneLabels))
          /\ ZeroLabels # {} =>
                Last(stats.d_fpr) =
                    TrueDiv(Cardinality(ZeroLabels \cap AboveThreshold),
                            Cardinality(ZeroLabels))
    /\ \A name \in {"d_fpr", "d_precision", "d_recall"} :
          \A i \in 1..Len(stats[name]) :
              LET q == stats[name][i] IN 0 <= q[1] /\ q[1] <= q[2] /\ q[2] > 0

C12_Witness ==
    /\ pc = "zero_grad" /\ tt = "D" /\ y = <<0, 1>>
    /\ mod_pred = <<d_thresh, d_thresh>>
    /\ Added("d_fpr") = 1 /\ Last(stats.d_fpr) = <<0, 1>>
    /\ Added("d_recall") = 1 /\ Last(stats.d_recall) = <<0, 1>>
    /\ Added("d_precision") = 0

(* C13: once the discriminator has been trained in some step, every one   *)
(* of its parameters lies in [ClampLo, ClampHi] at every later step       *)
(* boundary, whatever steps and train calls follow.  (Before its first    *)
(* step the parameters are the constructor's and may lie outside: the     *)
(* witness is a first discriminator step that follows a generator step    *)
(* and starts from parameters outside the range.)                         *)
C13_ClampedEverAfter ==
    (StepBoundary /\ stats.epochs_trained["D"] > 0) =>
        InClampRange(theta["D"])

C13_Witness ==
    /\ pc = "w_dist" /\ tt = "D"
    /\ stats0.epochs_trained["D"] = 0 /\ stats0.epochs_trained["G"] = 1
    /\ ~InClampRange(theta0["D"])
    /\ InClampRange(theta["D"])

(* C14: with a batch size of at least 2, a generator step adds nothing to *)
(* d_fpr and one entry to d_recall, a discriminator step one entry to     *)
(* each; so while every step run so far had n_batch >= 2, at each step    *)
(* boundary d_fpr is as long as the discriminator's counter, d_recall as  *)
(* long as the number of steps, and d_precision no longer than that.      *)
C14_RateLengths ==
    /\ (AfterMetrics /\ n_batch >= 2) =>
          /\ Added("d_fpr") = (IF tt = "D" THEN 1 ELSE 0)
          /\ Added("d_recall") = 1
    /\ (StepBoundary /\ ~small_batch) =>
          /\ Len(stats.d_fpr) = stats.epochs_trained["D"]
          /\ Len(stats.d_recall) = StepsDone
          /\ Len(stats.d_precision) <= StepsDone

C14_Witness ==
    /\ pc = "idle" /\ ~small_batch
    /\ stats.epochs_trained["G"] = 1 /\ stats.epochs_trained["D"] = 1
    /\ Len(stats.d_fpr) = 1 /\ Len(stats.d_recall) = 2
    /\ Len(stats.d_precision) = 0

====
